---- MODULE Spec2Model ----
(***************************************************************************)
(* Model of src/dataset_utils.py: MasksComposer, SuperviselyDataset's      *)
(* target processing, EmptyClassesAdd and AugmentedDataset.                *)
(*                                                                         *)
(* numpy arrays are records [kind, shape, px]: px maps an index tuple      *)
(* (0-based, as in the source) to the element.  None is NoneVal.  A call   *)
(* that raises leaves its exception's name in ret.exc.                     *)
(***************************************************************************)
EXTENDS Integers, Sequences, FiniteSets, TLC

\* ------------------------------------------------------------- bounds
\* The frame (MasksComposer's target_shape): 2 rows of 3 columns.
FrameShape == <<2, 3>>
FrameH == FrameShape[1]
FrameW == FrameShape[2]
\* add_mask calls per behaviour.
MaxAdds == 3
\* add_mask calls per behaviour when several classes are in use.
MaxClassAdds == 3
\* Objects per item of the SuperviselyDataset.
MaxObjects == 2
\* The largest total class count of an EmptyClassesAdd.
MaxClasses == 3
\* add_aug calls per behaviour.
MaxAugs == 3
\* Field values of a sample are 0 .. ValMod - 1.
ValMod == 3
\* add_borders_as_class calls per behaviour.
MaxConfigs == 1

\* uint8 arithmetic wraps modulo 2^8.
Uint8Mod == 256

\* Class ids callers use.
Classes == {0, 1, 2}
KernelSizes == {2, 3}

\* -------------------------------------------------------------- state
VARIABLES
  \* MasksComposer
  composer,   \* the MasksComposer object
  nAdd,       \* add_mask calls made
  nCfg,       \* add_borders_as_class calls made
  call,       \* the last call: its operation, and whether its offset puts
              \* the mask beyond the canvas
  ret,        \* the last call's outcome: the exception raised ("none" for
              \* none) and the value returned
  expected,   \* per class: the pixel-wise sum of the contributions placed so
              \* far, kept while every call for the class was in bounds and
              \* the class had no borders
  contrib,    \* per class: the first two contributions as full-frame masks,
              \* kept while the class had borders from the start
  \* SuperviselyDataset
  sds,        \* the SuperviselyDataset object: its border settings
  sdsItem,    \* the target of the item last read
  sdsRet,     \* the outcome of the last call
  \* EmptyClassesAdd
  eca,        \* the EmptyClassesAdd object, None before construction
  ecaItem,    \* the sample the wrapped dataset returned to the last read
  ecaRet,     \* the outcome of the last call
  \* AugmentedDataset
  augds,      \* the AugmentedDataset object: _augs and _augs_for_whole
  registered, \* the add_aug calls so far, in order, as <<aug, identificator>>
  augItem,    \* the sample the wrapped dataset returned to the last read
  augRet      \* the last read: the value returned and the transform calls
              \* it made

composerVars == <<composer, nAdd, nCfg, call, ret, expected, contrib>>

sdsVars == <<sds, sdsItem, sdsRet>>

ecaVars == <<eca, ecaItem, ecaRet>>

augVars == <<augds, registered, augItem, augRet>>

vars == <<composerVars, sdsVars, ecaVars, augVars>>

\* ------------------------------------------------------------- arrays
NoneVal == [kind |-> "None"]

Indices(shape) ==
  IF Len(shape) = 1 THEN {<<i>> : i \in 0..(shape[1] - 1)}
  ELSE IF Len(shape) = 2 THEN (0..(shape[1] - 1)) \X (0..(shape[2] - 1))
  ELSE IF Len(shape) = 3
    THEN (0..(shape[1] - 1)) \X (0..(shape[2] - 1)) \X (0..(shape[3] - 1))
  ELSE (0..(shape[1] - 1)) \X (0..(shape[2] - 1)) \X (0..(shape[3] - 1))
         \X (0..(shape[4] - 1))

NdArray(shape, px) == [kind |-> "ndarray", shape |-> shape, px |-> px]

Zeros(shape) == NdArray(shape, [i \in Indices(shape) |-> 0])

Ones(shape) == NdArray(shape, [i \in Indices(shape) |-> 1])

\* Python's slice.indices for a[start:stop] on an axis of length n, step 1:
\* negative bounds count from the end, then both are clamped to 0..n.
SliceBound(i, n) ==
  IF i < 0 THEN (IF i + n < 0 THEN 0 ELSE i + n)
  ELSE (IF i > n THEN n ELSE i)

SliceOf(start, stop, n) ==
  LET s == SliceBound(start, n)
      e == SliceBound(stop, n)
  IN  [lo |-> s, len |-> IF e > s THEN e - s ELSE 0]

\* numpy broadcasting of a 2-D operand onto a 2-D destination of shape dst:
\* each axis of the operand equals the destination's or is 1.
BroadcastableTo(shape, dst) ==
  \A d \in 1..2 : shape[d] = dst[d] \/ shape[d] = 1

\* Two-sided broadcasting (a + b): each axis equal, or one of them 1.
Compatible(s1, s2) ==
  \A d \in 1..2 : s1[d] = s2[d] \/ s1[d] = 1 \/ s2[d] = 1

\* The element of m that broadcasting puts at (i, j) of the destination.
BroadcastAt(m, i, j) ==
  m.px[<<IF m.shape[1] = 1 THEN 0 ELSE i, IF m.shape[2] = 1 THEN 0 ELSE j>>]

\* A two-element offset array (row, col).
Offset(r, c) == [kind |-> "offset", row |-> r, col |-> c]

InSlice(sl, i) == sl.lo <= i /\ i < sl.lo + sl.len

Clip01(v) == IF v < 0 THEN 0 ELSE IF v > 1 THEN 1 ELSE v

MaxOf(S) == CHOOSE x \in S : \A y \in S : y <= x

\* ------------------------------------------------------ MasksComposer
\* __init__: no masks, borders off.  _masks is a dict: `order` is its
\* insertion order, `masks` its values (an ndarray, or the {'mask','borders'}
\* dict as [kind |-> "dict", mask, borders]).
ComposerInit(target_shape) ==
  [ masks             |-> [c \in {} |-> NoneVal],
    order             |-> << >>,
    mask_shape        |-> target_shape,
    borders_as_class  |-> FALSE,
    between_classes   |-> NoneVal,
    dilate_kernel     |-> NoneVal ]

\* add_borders_as_class(between_classes, dilate_masks_kernel): the kernel
\* is np.ones((k, k)), held as k.
AddBordersAsClass(c, between, k) ==
  [c EXCEPT !.borders_as_class = TRUE,
            !.between_classes = between,
            !.dilate_kernel = k]

\* cv2.dilate(src, np.ones((k, k))): default anchor (k // 2, k // 2), pixels
\* outside the image do not count.  dst(r, c) is the maximum of src over
\* rows r - a .. r - a + k - 1 and columns c - a .. c - a + k - 1.
Dilate(src, k) ==
  LET a == k \div 2
      Win(r, c) ==
        { src.px[<<rr, cc>>] :
            rr \in { x \in (r - a)..(r - a + k - 1) : 0 <= x /\ x < src.shape[1] },
            cc \in { y \in (c - a)..(c - a + k - 1) : 0 <= y /\ y < src.shape[2] } }
  IN  NdArray(src.shape,
              [i \in Indices(src.shape) |-> MaxOf(Win(i[1], i[2]))])

BorderMarkAny(add) == IF add > 0 THEN 1 ELSE 0

\* borders[add > 1] = 1, for the sum `add` of the two dilated masks.
BorderMark(add) == IF add > 1 THEN 1 ELSE 0

\* _calc_border_between_masks(mask1, mask2), mask2 broadcastable to mask1.
CalcBorderBetweenMasks(mask1, mask2, k) ==
  LET m1 == Dilate(mask1, k)
      m2 == Dilate(mask2, k)
  IN  NdArray(mask1.shape,
        [i \in Indices(mask1.shape) |->
           BorderMark((m1.px[i] + BroadcastAt(m2, i[1], i[2])) % Uint8Mod)])

\* dst[rows, cols] = mask (line 73), mask broadcastable to the slice.
SliceAssign(dst, rows, cols, mask) ==
  NdArray(dst.shape,
    [i \in Indices(dst.shape) |->
       IF InSlice(rows, i[1]) /\ InSlice(cols, i[2])
         THEN BroadcastAt(mask, i[1] - rows.lo, i[2] - cols.lo)
         ELSE dst.px[i]])

SliceAddInPlaceAtOrigin(dst, rows, cols, mask) ==
  NdArray(dst.shape,
    [i \in Indices(dst.shape) |->
       IF i[1] < rows.len /\ i[2] < cols.len
         THEN (dst.px[i] + BroadcastAt(mask, i[1], i[2])) % Uint8Mod
         ELSE dst.px[i]])

\* dst[rows, cols] += mask (line 87), mask broadcastable to the slice.
SliceAddInPlace(dst, rows, cols, mask) ==
  NdArray(dst.shape,
    [i \in Indices(dst.shape) |->
       IF InSlice(rows, i[1]) /\ InSlice(cols, i[2])
         THEN (dst.px[i] + BroadcastAt(mask, i[1] - rows.lo, i[2] - cols.lo))
                % Uint8Mod
         ELSE dst.px[i]])

\* dst += mask (lines 83, 89), mask broadcastable to dst.
AddInPlace(dst, mask) ==
  NdArray(dst.shape,
    [i \in Indices(dst.shape) |->
       (dst.px[i] + BroadcastAt(mask, i[1], i[2])) % Uint8Mod])

ClipNot(a) == a

\* np.clip(a, 0, 1)
Clip(a) == NdArray(a.shape, [i \in Indices(a.shape) |-> Clip01(a.px[i])])

\* The rows and columns a[offset[0]: offset[0] + h, offset[1]: offset[1] + w]
\* selects.
RowSlice(offset, mask, shape) ==
  SliceOf(offset.row, offset.row + mask.shape[1], shape[1])

ColSlice(offset, mask, shape) ==
  SliceOf(offset.col, offset.col + mask.shape[2], shape[2])

\* Lines 62-63: the class's zero canvas on first use.
WithCanvas(c, cls) ==
  IF cls \in DOMAIN c.masks THEN c
  ELSE [c EXCEPT !.masks = (cls :> Zeros(c.mask_shape)) @@ c.masks,
                 !.order = Append(c.order, cls)]

Raise(c, exc) == [c |-> c, exc |-> exc]

Done(c) == [c |-> c, exc |-> "none"]

\* Lines 66-84: the branch of a class with borders.
AddMaskBorders(c, mask, cls, offset) ==
  LET entry == c.masks[cls]
      isDict == entry.kind = "dict"
      origin_mask == IF isDict THEN entry.mask ELSE entry
      rows == RowSlice(offset, mask, origin_mask.shape)
      cols == ColSlice(offset, mask, origin_mask.shape)
      target_mask ==
        IF offset # NoneVal
          THEN SliceAssign(Zeros(origin_mask.shape), rows, cols, mask)
          ELSE mask
      borders == CalcBorderBetweenMasks(origin_mask, target_mask, c.dilate_kernel)
      summed ==
        IF offset # NoneVal /\ isDict THEN AddInPlace(borders, entry.borders)
        ELSE borders
      stored == [kind    |-> "dict",
                 mask    |-> Clip(AddInPlace(origin_mask, target_mask)),
                 borders |-> Clip(summed)]
  IN  IF offset # NoneVal /\ mask = NoneVal THEN Raise(c, "AttributeError")
      ELSE IF offset # NoneVal
              /\ ~BroadcastableTo(mask.shape, <<rows.len, cols.len>>)
        THEN Raise(c, "ValueError")
      ELSE IF target_mask = NoneVal THEN Raise(c, "TypeError")
      ELSE IF ~Compatible(target_mask.shape, origin_mask.shape)
        THEN Raise(c, "ValueError")
      ELSE IF ~BroadcastableTo(target_mask.shape, origin_mask.shape)
        THEN Raise(c, "IndexError")
      ELSE Done([c EXCEPT !.masks[cls] = stored])

\* Lines 85-89: the branch of a class without borders.
AddMaskPlain(c, mask, cls, offset) ==
  LET entry == c.masks[cls]
      rows == RowSlice(offset, mask, c.mask_shape)
      cols == ColSlice(offset, mask, c.mask_shape)
  IN  IF offset # NoneVal
        THEN IF mask = NoneVal THEN Raise(c, "AttributeError")
             ELSE IF entry.kind = "dict" THEN Raise(c, "TypeError")
             ELSE IF ~BroadcastableTo(mask.shape, <<rows.len, cols.len>>)
               THEN Raise(c, "ValueError")
             ELSE Done([c EXCEPT !.masks[cls] =
                          SliceAddInPlace(entry, rows, cols, mask)])
        ELSE IF mask = NoneVal \/ entry.kind = "dict" THEN Raise(c, "TypeError")
             ELSE IF ~BroadcastableTo(mask.shape, entry.shape)
               THEN Raise(c, "ValueError")
             ELSE Done([c EXCEPT !.masks[cls] = AddInPlace(entry, mask)])

\* add_mask(mask, cls, offset): the composer after the call and the
\* exception it raised, if any.
AddMask(c0, mask, cls, offset) ==
  LET c == WithCanvas(c0, cls)
  IN  IF c.borders_as_class /\ c.between_classes = NoneVal
        THEN Raise(c, "TypeError")
      ELSE IF c.borders_as_class /\ cls \in c.between_classes.elems
        THEN AddMaskBorders(c, mask, cls, offset)
      ELSE AddMaskPlain(c, mask, cls, offset)

\* np.stack(arrs, axis=0) of equally shaped arrays.
StackAxis0(arrs) ==
  LET shape == <<Len(arrs)>> \o arrs[1].shape
  IN  NdArray(shape, [i \in Indices(shape) |-> arrs[i[1] + 1].px[Tail(i)]])

\* np.stack(arrs, axis=2) of equally shaped 2-D arrays.
StackAxis2(arrs) ==
  LET shape == arrs[1].shape \o <<Len(arrs)>>
  IN  NdArray(shape,
        [i \in Indices(shape) |-> arrs[i[3] + 1].px[<<i[1], i[2]>>]])

SameShapes(arrs) == \A i \in 1..Len(arrs) : arrs[i].shape = arrs[1].shape

\* One iteration of compose's loop (lines 94-103): res after the class's
\* mask, or the exception np.stack raises on arrays of different shapes.
ComposeStep(res, mask) ==
  LET arrs ==
        IF res = NoneVal
          THEN IF mask.kind = "dict" THEN <<mask.mask, mask.borders>> ELSE <<mask>>
          ELSE IF mask.kind = "dict" THEN <<res, mask.mask, mask.borders>>
               ELSE <<res, mask>>
  IN  IF res = NoneVal /\ mask.kind # "dict" THEN mask
      ELSE IF ~SameShapes(arrs) THEN [kind |-> "raise", exc |-> "ValueError"]
      ELSE IF mask.kind = "dict" THEN StackAxis2(arrs)
      ELSE StackAxis0(arrs)

RECURSIVE ComposeFrom(_, _, _)
ComposeFrom(c, n, res) ==
  IF res.kind = "raise" \/ n > Len(c.order) THEN res
  ELSE ComposeFrom(c, n + 1, ComposeStep(res, c.masks[c.order[n]]))

\* compose(): the stacked masks, None for no masks, or the exception.
Compose(c) == ComposeFrom(c, 1, NoneVal)

\* ------------------------------------------- MasksComposer: the machine
\* The masks callers pass: small binary masks to place at an offset, and
\* full-frame masks.
SmallMasks == { Ones(<<1, 1>>), Ones(<<1, 2>>), Ones(<<2, 1>>) }

\* mask at offset on an otherwise zero frame, for a placement inside the
\* frame: mask[i, j] at [row + i, col + j].
RefPlace(mask, offset) ==
  [i \in Indices(FrameShape) |->
     IF /\ offset.row <= i[1] /\ i[1] < offset.row + mask.shape[1]
        /\ offset.col <= i[2] /\ i[2] < offset.col + mask.shape[2]
       THEN mask.px[<<i[1] - offset.row, i[2] - offset.col>>]
       ELSE 0]

ExceedsCanvas(mask, offset) ==
  /\ offset # NoneVal
  /\ \/ offset.row < 0
     \/ offset.col < 0
     \/ offset.row + mask.shape[1] > FrameH
     \/ offset.col + mask.shape[2] > FrameW

InBounds(mask, offset) ==
  IF offset = NoneVal THEN mask.shape = FrameShape
  ELSE ~ExceedsCanvas(mask, offset)

InsideOffsets(mask) ==
  { Offset(r, c) : r \in 0..(FrameH - mask.shape[1]),
                   c \in 0..(FrameW - mask.shape[2]) }

FullMasks ==
  { NdArray(FrameShape, RefPlace(m, o)) :
      m \in {Ones(<<1, 1>>), Zeros(<<1, 1>>)}, o \in InsideOffsets(Ones(<<1, 1>>)) }

\* Offsets inside the frame, and offsets before its first and past its last
\* row and column.
Offsets ==
  InsideOffsets(Ones(<<1, 1>>))
    \cup { Offset(-2, 0), Offset(-1, 0), Offset(0, -1),
           Offset(FrameH, 0), Offset(0, FrameW) }

\* The (mask, offset) pairs of add_mask calls.
AddArgs ==
  (SmallMasks \X (Offsets \cup {NoneVal})) \cup (FullMasks \X {NoneVal})

BetweenChoices == { NoneVal, [kind |-> "list", elems |-> {0}] }

HasBorders(c, cls) ==
  /\ c.borders_as_class
  /\ c.between_classes # NoneVal
  /\ cls \in c.between_classes.elems

ZeroPx == [i \in Indices(FrameShape) |-> 0]

ComposerMachineInit ==
  /\ composer = ComposerInit(FrameShape)
  /\ nAdd = 0
  /\ nCfg = 0
  /\ call = [op |-> "init", exceeds |-> FALSE]
  /\ ret = [exc |-> "none", val |-> NoneVal]
  /\ expected = [c \in Classes |-> [clean |-> TRUE, sum |-> ZeroPx]]
  /\ contrib = [c \in Classes |-> [ok |-> TRUE, seq |-> << >>]]

\* As _process_target does, borders are configured before the first mask.
AddBordersAsClassCall(between, k) ==
  /\ nCfg < MaxConfigs
  /\ nAdd = 0
  /\ nCfg' = nCfg + 1
  /\ composer' = AddBordersAsClass(composer, between, k)
  /\ call' = [op |-> "add_borders_as_class", exceeds |-> FALSE]
  /\ ret' = [exc |-> "none", val |-> NoneVal]
  /\ contrib' = [c \in Classes |->
                   IF contrib[c].seq = << >> THEN contrib[c]
                   ELSE [ok |-> FALSE, seq |-> << >>]]
  /\ UNCHANGED <<nAdd, expected, sdsVars, ecaVars, augVars>>

AddMaskCall(mask, cls, offset) ==
  /\ nAdd' = nAdd + 1
  /\ LET r == AddMask(composer, mask, cls, offset)
         place == RefPlace(mask, IF offset = NoneVal THEN Offset(0, 0) ELSE offset)
     IN  /\ composer' = r.c
         /\ ret' = [exc |-> r.exc, val |-> NoneVal]
         /\ call' = [op |-> "add_mask", exceeds |-> ExceedsCanvas(mask, offset)]
         /\ expected' = [expected EXCEPT ![cls] =
              IF /\ expected[cls].clean
                 /\ InBounds(mask, offset)
                 /\ ~HasBorders(composer, cls)
                 /\ ~(composer.borders_as_class
                        /\ composer.between_classes = NoneVal)
                THEN [clean |-> TRUE,
                      sum |-> [i \in Indices(FrameShape) |->
                                 expected[cls].sum[i] + place[i]]]
                ELSE [clean |-> FALSE, sum |-> ZeroPx]]
         /\ contrib' = [contrib EXCEPT ![cls] =
              IF /\ contrib[cls].ok
                 /\ HasBorders(composer, cls)
                 /\ InBounds(mask, offset)
                 /\ Len(contrib[cls].seq) < 2
                THEN [ok |-> TRUE, seq |-> Append(contrib[cls].seq, place)]
                ELSE [ok |-> FALSE, seq |-> << >>]]
  /\ UNCHANGED <<nCfg, sdsVars, ecaVars, augVars>>

ComposeCall ==
  /\ call.op # "compose"
  /\ LET res == Compose(composer)
     IN  ret' = IF res.kind = "raise" THEN [exc |-> res.exc, val |-> NoneVal]
                ELSE [exc |-> "none", val |-> res]
  /\ call' = [op |-> "compose", exceeds |-> FALSE]
  /\ UNCHANGED <<composer, nAdd, nCfg, expected, contrib, sdsVars, ecaVars, augVars>>

\* One class, masks of every shape at every offset.
MasksNext ==
  \/ \E b \in BetweenChoices, k \in KernelSizes : AddBordersAsClassCall(b, k)
  \/ /\ nAdd < MaxAdds
     /\ \E a \in AddArgs : AddMaskCall(a[1], 0, a[2])
  \/ ComposeCall

\* Several classes, one-pixel masks.
ClassArgs ==
  ({Ones(<<1, 1>>)} \X {Offset(0, 0), Offset(FrameH - 1, FrameW - 1)})
    \cup ({NdArray(FrameShape, RefPlace(Ones(<<1, 1>>), Offset(0, 1)))} \X {NoneVal})

ClassesNext ==
  \/ \E b \in BetweenChoices, k \in KernelSizes : AddBordersAsClassCall(b, k)
  \/ /\ nAdd < MaxClassAdds
     /\ \E a \in ClassArgs, cls \in Classes : AddMaskCall(a[1], cls, a[2])
  \/ ComposeCall

\* ------------------------------------------------ MasksComposer: claims
NonZero(px) == { i \in DOMAIN px : px[i] # 0 }

\* The dilation of a full-frame mask with the configured kernel.
Dilated(px) == Dilate(NdArray(FrameShape, px), composer.dilate_kernel).px

\* A class with borders has received exactly two masks, both in bounds, on a
\* composer whose borders were configured before.
TwoMasks(cls) == contrib[cls].ok /\ Len(contrib[cls].seq) = 2

\* C1 (as claimed): an add_mask call whose offset puts the mask beyond the
\* canvas, or has a negative component, is rejected with InvalidOffset.
C1_ExceedingOffsetRejected ==
  ( /\ call.op = "add_mask"
    /\ call.exceeds
    /\ ~(composer.borders_as_class /\ composer.between_classes = NoneVal) )
  => ret.exc = "InvalidOffset"

\* C2: for a class without borders, after in-bounds add_mask calls the canvas
\* is the pixel-wise sum of the placed contributions, mask[i, j] at
\* [row + i, col + j] (at (0, 0) without offset), and is not clipped.
C2_CanvasIsSumOfPlaced ==
  \A cls \in Classes :
    expected[cls].clean =>
      IF cls \in DOMAIN composer.masks
        THEN /\ composer.masks[cls].kind = "ndarray"
             /\ composer.masks[cls].shape = FrameShape
             /\ \A i \in Indices(FrameShape) :
                  composer.masks[cls].px[i] = expected[cls].sum[i]
        ELSE expected[cls].sum = ZeroPx

\* Three in-bounds calls, two of them covering the last pixel of the frame,
\* which holds 2.
C2_Witness ==
  /\ expected[0].clean
  /\ nAdd = 3
  /\ 0 \in DOMAIN composer.masks
  /\ composer.masks[0].px[<<FrameH - 1, FrameW - 1>>] = 2
  /\ composer.masks[0].px[<<0, 0>>] = 1

\* C3 (as claimed): after two masks for a class with borders, the border
\* mask is all zero if the masks do not overlap, and is non-zero exactly
\* where both dilated masks are non-zero if the dilated masks intersect.
C3_NonOverlappingNoBorder ==
  \A cls \in Classes :
    TwoMasks(cls) =>
      LET m1 == contrib[cls].seq[1]
          m2 == contrib[cls].seq[2]
          both == NonZero(Dilated(m1)) \cap NonZero(Dilated(m2))
          b == composer.masks[cls].borders.px
      IN  /\ (NonZero(m1) \cap NonZero(m2) = {}) => NonZero(b) = {}
          /\ (both # {}) => NonZero(b) = both

\* C3 (amended): after two masks for a class with borders, the border mask
\* is non-zero exactly where both dilated masks are non-zero; it is all zero
\* when the dilated masks do not intersect.
C3_BorderIsDilatedIntersection ==
  \A cls \in Classes :
    TwoMasks(cls) =>
      /\ composer.masks[cls].kind = "dict"
      /\ NonZero(composer.masks[cls].borders.px)
           = NonZero(Dilated(contrib[cls].seq[1]))
               \cap NonZero(Dilated(contrib[cls].seq[2]))

\* Two masks whose dilations intersect in some pixels and not in others.
C3_Witness ==
  /\ TwoMasks(0)
  /\ NonZero(composer.masks[0].borders.px) # {}
  /\ NonZero(composer.masks[0].borders.px) # Indices(FrameShape)

\* Two masks whose dilations do not intersect.
C3_WitnessApart ==
  /\ TwoMasks(0)
  /\ NonZero(contrib[0].seq[1]) # {}
  /\ NonZero(contrib[0].seq[2]) # {}
  /\ NonZero(composer.masks[0].borders.px) = {}

\* C4 (as claimed): compose() after masks for k >= 2 classes without borders
\* returns shape (H, W, k), channel i the mask of the i-th class inserted.
C4_StackedAlongTrailingAxis ==
  ( /\ call.op = "compose"
    /\ Len(composer.order) >= 2
    /\ \A cls \in DOMAIN composer.masks : composer.masks[cls].kind = "ndarray" )
  => /\ ret.exc = "none"
     /\ ret.val.shape = <<FrameH, FrameW, Len(composer.order)>>
     /\ \A n \in 1..Len(composer.order) : \A i \in Indices(FrameShape) :
          ret.val.px[<<i[1], i[2], n - 1>>]
            = composer.masks[composer.order[n]].px[i]

\* C9 (as claimed): a pixel marked in the border mask of a class with borders
\* stays marked at every later step.
C9_BordersAccumulate ==
  [][ \A cls \in Classes : \A i \in Indices(FrameShape) :
        ( /\ HasBorders(composer, cls)
          /\ cls \in DOMAIN composer.masks
          /\ composer.masks[cls].kind = "dict"
          /\ composer.masks[cls].borders.px[i] # 0 )
        => composer'.masks[cls].borders.px[i] # 0 ]_composerVars

\* C10: for a class with borders, after every add_mask call every pixel of
\* the stored class mask and of the stored border mask is 0 or 1.
C10_BordersClassBinary ==
  \A cls \in DOMAIN composer.masks :
    /\ ( /\ HasBorders(composer, cls)
         /\ call.op = "add_mask"
         /\ ret.exc = "none" )
       => composer.masks[cls].kind = "dict"
    /\ composer.masks[cls].kind = "dict"
       => \A i \in Indices(FrameShape) :
            /\ composer.masks[cls].mask.px[i] \in {0, 1}
            /\ composer.masks[cls].borders.px[i] \in {0, 1}

\* Two contributions cover the same pixel, a third call found a border
\* again: the pixel holds 1 and the border mask is marked.
C10_Witness ==
  /\ nAdd = 3
  /\ HasBorders(composer, 0)
  /\ 0 \in DOMAIN composer.masks
  /\ composer.masks[0].kind = "dict"
  /\ composer.masks[0].mask.px[<<0, 0>>] = 1
  /\ composer.masks[0].borders.px[<<0, 0>>] = 1

\* -------------------------------------------------- SuperviselyDataset
\* uint16 (the dtype of a bitmap's origin) wraps modulo 2^16.
Uint16Mod == 65536

\* A bitmap payload that zlib.decompress rejects.
Corrupt == [kind |-> "corrupt"]

\* An annotation object: obj['bitmap'] is None or {'data', 'origin': [x, y]},
\* obj['points'] is {'exterior': [[x, y], ...], 'interior': [...]}.  A
\* bitmap's data is held as the alpha channel of the image it decodes to.
BitmapObject(alpha, x, y) ==
  [bitmap |-> [data |-> alpha, origin |-> <<x, y>>],
   points |-> [exterior |-> << >>, interior |-> << >>]]

PolygonObject(exterior) ==
  [bitmap |-> NoneVal, points |-> [exterior |-> exterior, interior |-> << >>]]

EmptyObject == PolygonObject(<< >>)

\* The four corners of the rectangle from (x0, y0) to (x1, y1).
Rectangle(x0, y0, x1, y1) == <<<<x0, y0>>, <<x0, y1>>, <<x1, y1>>, <<x1, y0>>>>

MinOf(S) == CHOOSE x \in S : \A y \in S : x <= y

\* Lines 166-171: the alpha channel, thresholded to {0, 1}.
BitmapMask(alpha) ==
  NdArray(alpha.shape,
          [i \in Indices(alpha.shape) |-> IF alpha.px[i] > 0 THEN 1 ELSE 0])

\* Lines 174-178, for the rectangles of this model: the contour's bounding
\* box is max - min wide and high, and the filled rectangle covers all of it.
PolygonMask(pts) ==
  LET xs == { pts[n][1] : n \in 1..Len(pts) }
      ys == { pts[n][2] : n \in 1..Len(pts) }
  IN  [mask   |-> Ones(<<MaxOf(ys) - MinOf(ys), MaxOf(xs) - MinOf(xs)>>),
       origin |-> Offset(MinOf(ys), MinOf(xs))]

\* object_to_mask(obj): (obj_mask, origin), or the exception.
ObjectToMask(obj) ==
  IF obj.bitmap # NoneVal
    THEN IF obj.bitmap.data = Corrupt
           THEN [exc |-> "zlib.error", mask |-> NoneVal, origin |-> NoneVal]
           ELSE [exc    |-> "none",
                 mask   |-> BitmapMask(obj.bitmap.data),
                 origin |-> Offset(obj.bitmap.origin[2] % Uint16Mod,
                                   obj.bitmap.origin[1] % Uint16Mod)]
  ELSE IF Len(obj.points.interior) + Len(obj.points.exterior) > 0
    THEN IF Len(obj.points.exterior) = 0
           THEN [exc |-> "ValueError", mask |-> NoneVal, origin |-> NoneVal]
         ELSE
         [exc    |-> "none",
          mask   |-> PolygonMask(obj.points.exterior).mask,
          origin |-> PolygonMask(obj.points.exterior).origin]
  ELSE [exc |-> "none", mask |-> NoneVal, origin |-> NoneVal]

\* Lines 191-193: the loop over the objects, from the n-th on.
RECURSIVE AddObjects(_, _, _)
AddObjects(c, objects, n) ==
  IF n > Len(objects) THEN Done(c)
  ELSE LET m == ObjectToMask(objects[n])
       IN  IF m.exc # "none" THEN Raise(c, m.exc)
           ELSE LET r == AddMask(c, m.mask, 0, m.origin)
                IN  IF r.exc # "none" THEN r
                    ELSE AddObjects(r.c, objects, n + 1)

\* The kernel add_borders_as_class gets by default: np.ones((2, 2)).
DefaultKernel == 2

\* Lines 182-189: the composer _process_target sets up.
TargetComposer(d, target) ==
  LET c == ComposerInit(<<target.size.height, target.size.width>>)
  IN  IF ~d.use_border_as_class THEN c
      ELSE AddBordersAsClass(c, [kind |-> "list", elems |-> {0}],
             IF d.border_thikness = NoneVal THEN DefaultKernel
             ELSE d.border_thikness.v)

\* _process_target(target): the composed mask, or the exception.
ProcessTarget(d, target) ==
  LET r == AddObjects(TargetComposer(d, target), target.objects, 1)
      res == Compose(r.c)
  IN  IF r.exc # "none" THEN [exc |-> r.exc, val |-> NoneVal]
      ELSE IF res.kind = "raise" THEN [exc |-> res.exc, val |-> NoneVal]
      ELSE [exc |-> "none", val |-> res]

\* Objects of the items: bitmaps inside the frame (alpha 0 is transparent), a
\* bitmap reaching past the frame, a corrupt one, rectangles, and an object
\* with neither bitmap nor points.
Alphas ==
  { NdArray(<<1, 1>>, [i \in Indices(<<1, 1>>) |-> 255]),
    NdArray(<<1, 2>>, [i \in Indices(<<1, 2>>) |-> 128 * i[2]]) }

Objects ==
  { BitmapObject(a, x, x) : a \in Alphas, x \in {0, 1} }
    \cup { BitmapObject(Ones(<<1, 2>>), FrameW - 1, 0),
           BitmapObject(Corrupt, 0, 0),
           PolygonObject(Rectangle(1, 0, 3, 2)),
           EmptyObject }

RECURSIVE SeqsUpTo(_, _)
SeqsUpTo(S, n) ==
  IF n = 0 THEN {<< >>}
  ELSE LET shorter == SeqsUpTo(S, n - 1)
       IN  shorter \cup { Append(q, x) : q \in shorter, x \in S }

Thicknesses == { NoneVal, [kind |-> "int", v |-> 1], [kind |-> "int", v |-> 3] }

NoItem == [size |-> [height |-> FrameH, width |-> FrameW], objects |-> << >>]

SdsInit ==
  /\ sds = [use_border_as_class |-> FALSE, border_thikness |-> NoneVal]
  /\ sdsItem = NoItem
  /\ sdsRet = [op |-> "init", exc |-> "none", val |-> NoneVal]

\* use_border_as_class(border_thikness)
UseBorderAsClass(thickness) ==
  /\ sds' = [use_border_as_class |-> TRUE, border_thikness |-> thickness]
  /\ sdsRet' = [op |-> "use_border_as_class", exc |-> "none", val |-> NoneVal]
  /\ UNCHANGED <<sdsItem, composerVars, ecaVars, augVars>>

\* __getitem__(item), for the item whose parsed annotation is target: the
\* image read is not modelled, the returned 'target' is.
SdsGetItem(target) ==
  /\ sdsItem' = target
  /\ LET r == ProcessTarget(sds, target)
     IN  sdsRet' = [op |-> "getitem", exc |-> r.exc, val |-> r.val]
  /\ UNCHANGED <<sds, composerVars, ecaVars, augVars>>

SdsNext ==
  \/ \E t \in Thicknesses : UseBorderAsClass(t)
  \/ \E objs \in SeqsUpTo(Objects, MaxObjects) :
       SdsGetItem([NoItem EXCEPT !.objects = objs])

\* C5 (as claimed): an object with neither bitmap nor points is no
\* contribution and no error: the read of an item holding one raises nothing
\* and returns what the item's other objects alone compose to.
C5_EmptyObjectIsNoContribution ==
  ( /\ sdsRet.op = "getitem"
    /\ \E n \in 1..Len(sdsItem.objects) : sdsItem.objects[n] = EmptyObject )
  => LET IsOther(obj) == obj # EmptyObject
         others == [sdsItem EXCEPT !.objects = SelectSeq(sdsItem.objects, IsOther)]
         alone == ProcessTarget(sds, others)
     IN  alone.exc = "none" =>
           /\ sdsRet.exc = "none"
           /\ sdsRet.val = alone.val

\* ----------------------------------------- PixartDataset, EmptyClassesAdd
\* An array of floats: element i is px[i] / scale.  The arrays above are
\* uint8 arrays: element i is px[i].
FloatArray(shape, px, scale) ==
  [kind |-> "ndarray", dtype |-> "float64", shape |-> shape, px |-> px,
   scale |-> scale]

ScaleOf(a) == IF "scale" \in DOMAIN a THEN a.scale ELSE 1

\* The full scale of an 8-bit mask image.
MaskWhite == 255

\* PixartDataset.__getitem__: 'target' is the mask image divided by 255.
PixartTarget(img) == FloatArray(img.shape, img.px, MaskWhite * ScaleOf(img))

\* What storing the element px / scale in a uint8 array keeps: the integer
\* part, modulo 2^8.
ToUint8(px, scale) == (px \div scale) % Uint8Mod

\* The shape of value once target[:, :, idx] = value has dropped its leading
\* axes of length 1 beyond the two of the destination.
RECURSIVE StripLeading(_)
StripLeading(shape) ==
  IF Len(shape) > 2 /\ shape[1] = 1 THEN StripLeading(Tail(shape)) ELSE shape

\* Whether target[:, :, idx] = value broadcasts value onto (h, w).
Assignable(shape, h, w) ==
  LET st == StripLeading(shape)
  IN  /\ Len(st) <= 2
      /\ \A d \in 1..Len(st) :
           LET dst == IF d + (2 - Len(st)) = 1 THEN h ELSE w
           IN  st[d] = dst \/ st[d] = 1

\* The element of value that the broadcast puts at (r, c).
AssignedAt(value, r, c) ==
  LET n == Len(value.shape)
      At(d, i) == IF value.shape[d] = 1 THEN 0 ELSE i
      idx == [d \in 1..n |->
                IF d = n THEN At(d, c)
                ELSE IF d = n - 1 THEN At(d, r)
                ELSE 0]
  IN  value.px[idx]

\* __init__(dataset, target_classes_num, exists_class_idx), lines 206-211.
EcaConstruct(n, idx) ==
  IF n <= idx THEN [exc |-> "Exception", obj |-> NoneVal]
  ELSE [exc |-> "none",
        obj |-> [kind |-> "EmptyClassesAdd", target_classes_num |-> n,
                 exists_class_idx |-> idx]]

\* Lines 224-227: the zero array of target_classes_num channels with the
\* target stored, as uint8, in channel exists_class_idx.
Expand(e, target) ==
  LET shape == <<target.shape[1], target.shape[2], e.target_classes_num>>
  IN  NdArray(shape,
        [i \in Indices(shape) |->
           IF i[3] = e.exists_class_idx
             THEN ToUint8(AssignedAt(target, i[1], i[2]), ScaleOf(target))
             ELSE 0])

\* __getitem__(item), for the sample cur_res the wrapped dataset returns.
EcaGetItemOf(e, cur_res) ==
  LET target_shape == cur_res.target.shape
  IN  IF Len(target_shape) > 3 THEN [exc |-> "RuntimeError", val |-> NoneVal]
      ELSE IF Len(target_shape) = 3 /\ target_shape[3] > e.target_classes_num
        THEN [exc |-> "RuntimeError", val |-> NoneVal]
      ELSE IF Len(target_shape) < 2 THEN [exc |-> "IndexError", val |-> NoneVal]
      ELSE IF ~Assignable(target_shape, target_shape[1], target_shape[2])
        THEN [exc |-> "ValueError", val |-> NoneVal]
      ELSE [exc |-> "none",
            val |-> [data |-> cur_res.data, target |-> Expand(e, cur_res.target)]]

\* Mask images of the PixartDataset: black, grey and white pixels.
MaskImages ==
  { NdArray(<<2, 2>>, px) : px \in [Indices(<<2, 2>>) -> {0, 128, 255}] }

\* Targets of the wrapped dataset: Pixart targets, uint8 masks of two
\* dimensions, arrays of three and of four.
WrappedTargets ==
  { PixartTarget(img) : img \in MaskImages }
    \cup { NdArray(<<1, 2>>, px) : px \in [Indices(<<1, 2>>) -> {0, 1, 2}] }
    \cup { Ones(<<1, 1, 1>>), Ones(<<2, 2, 1>>), Ones(<<2, 2, 2>>),
           Ones(<<2, 2, 3>>), Ones(<<2, 2, 4>>), Ones(<<1, 1, 1, 1>>) }

NoSample == [data |-> "none", target |-> NoneVal]

EcaInit ==
  /\ eca = NoneVal
  /\ ecaItem = NoSample
  /\ ecaRet = [op |-> "init", exc |-> "none", val |-> NoneVal]

EcaConstructCall(n, idx) ==
  /\ eca = NoneVal
  /\ LET r == EcaConstruct(n, idx)
     IN  /\ eca' = r.obj
         /\ ecaRet' = [op |-> "construct", exc |-> r.exc, val |-> NoneVal]
  /\ UNCHANGED <<ecaItem, composerVars, sdsVars, augVars>>

EcaGetItem(cur_res) ==
  /\ eca # NoneVal
  /\ ecaItem' = cur_res
  /\ LET r == EcaGetItemOf(eca, cur_res)
     IN  ecaRet' = [op |-> "getitem", exc |-> r.exc, val |-> r.val]
  /\ UNCHANGED <<eca, composerVars, sdsVars, augVars>>

EcaNext ==
  \/ \E n \in 1..MaxClasses, idx \in 0..MaxClasses : EcaConstructCall(n, idx)
  \/ \E t \in WrappedTargets : EcaGetItem([data |-> "image", target |-> t])

\* C6 (as claimed): a read whose wrapped target is 2-D of shape (H, W)
\* returns a target of shape (H, W, n) whose channel k equals the wrapped
\* target at every pixel and whose other channels are zero, and the wrapped
\* sample's data unchanged.
C6_ChannelEqualsTarget ==
  (ecaRet.op = "getitem" /\ Len(ecaItem.target.shape) = 2) =>
    LET t == ecaItem.target
        shape == <<t.shape[1], t.shape[2], eca.target_classes_num>>
    IN  /\ ecaRet.exc = "none"
        /\ ecaRet.val.data = ecaItem.data
        /\ ecaRet.val.target.shape = shape
        /\ \A i \in Indices(shape) :
             IF i[3] = eca.exists_class_idx
               THEN ecaRet.val.target.px[i] * ScaleOf(t) = t.px[<<i[1], i[2]>>]
               ELSE ecaRet.val.target.px[i] = 0

\* C7 (as claimed): a read raises the shape error when the wrapped target has
\* more than 3 dimensions, or has 3 and more channels than classes; every
\* other target is expanded to (H, W, n) and returned without error.
C7_ValidatedTargetsExpand ==
  ecaRet.op = "getitem" =>
    LET shape == ecaItem.target.shape
    IN  IF \/ Len(shape) > 3
           \/ Len(shape) = 3 /\ shape[3] > eca.target_classes_num
          THEN ecaRet.exc = "RuntimeError"
          ELSE /\ ecaRet.exc = "none"
               /\ ecaRet.val.target.shape
                    = <<shape[1], shape[2], eca.target_classes_num>>

\* --------------------------------------------------- AugmentedDataset
\* The transforms callers register.  A per-field transform maps a field's
\* value, a whole-sample transform maps the sample.
FieldAugs == {"inc", "dbl"}

WholeAugs == {"swap", "mix", "flip"}

ApplyField(aug, v) ==
  IF aug = "inc" THEN (v + 1) % ValMod ELSE (2 * v) % ValMod

ApplyWhole(aug, res) ==
  IF aug = "swap" THEN [data |-> res.target, target |-> res.data]
  ELSE IF aug = "mix"
    THEN [data |-> res.data, target |-> (res.target + res.data) % ValMod]
  ELSE [data |-> (ValMod - 1) - res.data, target |-> res.target]

AppendAugFirst(whole, aug) == <<aug>> \o whole

\* self._augs_for_whole.append(aug)
AppendAug(whole, aug) == Append(whole, aug)

\* add_aug(aug, identificator): d is the AugmentedDataset.
AddAug(d, aug, identificator) ==
  IF identificator = "None"
    THEN [d EXCEPT !.augs_for_whole = AppendAug(d.augs_for_whole, aug)]
    ELSE [d EXCEPT !.augs = (identificator :> aug) @@ d.augs]

\* Lines 249-251: the per-field transforms, on the fields that have one.
\* calls lists each call made as [aug, arg, out].
ApplyFieldAugs(d, res) ==
  LET matched == { k \in DOMAIN res : k \in DOMAIN d.augs }
      out == [k \in DOMAIN res |->
                IF k \in matched THEN ApplyField(d.augs[k], res[k]) ELSE res[k]]
  IN  [res   |-> out,
       calls |-> { [aug |-> d.augs[k], arg |-> res[k], out |-> out[k]] :
                     k \in matched }]

\* Lines 252-253: the whole-sample transforms from the n-th on.
RECURSIVE ApplyWholeAugs(_, _, _, _)
ApplyWholeAugs(d, res, n, calls) ==
  IF n > Len(d.augs_for_whole) THEN [res |-> res, calls |-> calls]
  ELSE LET out == ApplyWhole(d.augs_for_whole[n], res)
       IN  ApplyWholeAugs(d, out, n + 1,
             Append(calls, [aug |-> d.augs_for_whole[n], arg |-> res, out |-> out]))

\* __getitem__(item), for the sample res the wrapped dataset returns.
AugGetItemOf(d, res) ==
  LET fields == ApplyFieldAugs(d, res)
      whole == ApplyWholeAugs(d, fields.res, 1, << >>)
  IN  [val |-> whole.res, field_calls |-> fields.calls,
       whole_calls |-> whole.calls]

Identificators == {"data", "target", "image"}

Samples == [data : 0..(ValMod - 1), target : 0..(ValMod - 1)]

NoRead == [op |-> "init", val |-> NoneVal, field_calls |-> {}, whole_calls |-> << >>]

AugInit ==
  /\ augds = [augs |-> [k \in {} |-> "none"], augs_for_whole |-> << >>]
  /\ registered = << >>
  /\ augItem = [data |-> 0, target |-> 0]
  /\ augRet = NoRead

AddAugCall(a, identificator) ==
  /\ Len(registered) < MaxAugs
  /\ augds' = AddAug(augds, a, identificator)
  /\ registered' = Append(registered, <<a, identificator>>)
  /\ augRet' = NoRead
  /\ UNCHANGED <<augItem, composerVars, sdsVars, ecaVars>>

AugGetItem(res) ==
  /\ augItem' = res
  /\ LET r == AugGetItemOf(augds, res)
     IN  augRet' = [op |-> "getitem", val |-> r.val,
                    field_calls |-> r.field_calls, whole_calls |-> r.whole_calls]
  /\ UNCHANGED <<augds, registered, composerVars, sdsVars, ecaVars>>

AugNext ==
  \/ \E a \in FieldAugs, k \in Identificators : AddAugCall(a, k)
  \/ \E a \in WholeAugs : AddAugCall(a, "None")
  \/ \E res \in Samples : AugGetItem(res)

\* The whole-sample transforms registered, in the order of registration.
RegisteredWhole ==
  LET IsWhole(r) == r[2] = "None"
      whole == SelectSeq(registered, IsWhole)
  IN  [n \in 1..Len(whole) |-> whole[n][1]]

\* The per-field transform in force for key k: the last one registered.
HasFieldAug(k) == \E n \in 1..Len(registered) : registered[n][2] = k

FieldAugOf(k) ==
  LET last == MaxOf({ n \in 1..Len(registered) : registered[n][2] = k })
  IN  registered[last][1]

\* C8: a read applies the registered per-field transform to each field of the
\* fetched item that has one and leaves the other fields as fetched, then
\* applies every whole-sample transform once, in registration order, each to
\* the output of the one before, and returns the output of the last.
C8_FieldThenWholeInOrder ==
  augRet.op = "getitem" =>
    LET fields == [k \in DOMAIN augItem |->
                     IF HasFieldAug(k) THEN ApplyField(FieldAugOf(k), augItem[k])
                     ELSE augItem[k]]
        calls == augRet.whole_calls
    IN  /\ augRet.field_calls
             = { [aug |-> FieldAugOf(k), arg |-> augItem[k], out |-> fields[k]] :
                   k \in { f \in DOMAIN augItem : HasFieldAug(f) } }
        /\ [n \in 1..Len(calls) |-> calls[n].aug] = RegisteredWhole
        /\ \A n \in 1..Len(calls) :
             /\ calls[n].arg = IF n = 1 THEN fields ELSE calls[n - 1].out
             /\ calls[n].out = ApplyWhole(calls[n].aug, calls[n].arg)
        /\ augRet.val = IF Len(calls) = 0 THEN fields ELSE calls[Len(calls)].out

\* A read through a per-field transform of 'data', none of 'target', and two
\* different whole-sample transforms.
C8_Witness ==
  /\ augRet.op = "getitem"
  /\ HasFieldAug("data")
  /\ ~HasFieldAug("target")
  /\ Len(augRet.whole_calls) = 2
  /\ augRet.whole_calls[1].aug # augRet.whole_calls[2].aug
  /\ augRet.whole_calls[2].arg # augRet.whole_calls[1].arg
  /\ augRet.val # augItem

\* -------------------------------------------------------- specifications
Init == ComposerMachineInit /\ SdsInit /\ EcaInit /\ AugInit

\* MasksComposer with one class, masks of every shape at every offset.
SpecMasks == Init /\ [][MasksNext]_vars

\* MasksComposer with several classes, one-pixel masks.
SpecClasses == Init /\ [][ClassesNext]_vars

\* SuperviselyDataset: reads of items of up to MaxObjects objects.
SpecSupervisely == Init /\ [][SdsNext]_vars

\* EmptyClassesAdd over a dataset returning WrappedTargets.
SpecEmptyClasses == Init /\ [][EcaNext]_vars

\* AugmentedDataset with up to MaxAugs registered transforms.
SpecAugmented == Init /\ [][AugNext]_vars

====
